---------------------------- MODULE Spec2Model ----------------------------
(***************************************************************************)
(* A model of the SF allocator (src/sfallocator.h): the process-wide       *)
(* state, the pools obtained from the virtual-memory backend, the block    *)
(* descriptors written into pool memory, and the three entry points        *)
(* sf_init, sf_alloc and sf_free.                                          *)
(*                                                                         *)
(* Addresses and sizes are byte counts.  A uint64_t is held in two's       *)
(* complement form: the integer x stands for the 64-bit word x mod 2^64,   *)
(* so a subtraction that wraps below zero is a negative integer here, and  *)
(* the unsigned comparisons of the code are made with U64GE / U64GT.       *)
(***************************************************************************)
EXTENDS Integers, Sequences, FiniteSets, TLC

(***************************************************************************)
(* Program constants.                                                      *)
(***************************************************************************)
NULL == 0

SFA_ALLOCATION_ALIGNMENT_SIZE == 32

SFA_ALLOCATION_MINIMUM_SIZE == 32

SFA_ALLOCATION_MINIMUM_PAGES_PER_POOL == 4

SFA_DEFAULT_INITIAL_POOL_SIZE == 262144

\* sizeof(sfa_pool_descriptor) on a 64-bit target: 6 words and a padded bool.
SizeofPoolDescriptor == 56

\* sizeof(sfa_allocation_descriptor) on a 64-bit target: 7 words.
SizeofAllocationDescriptor == 56

\* dwAllocationGranularity as reported by GetSystemInfo on Windows.
PageGranularity == 65536

\* Byte offsets of the fields of sfa_allocation_descriptor.
OffFlags == 0

OffLeft == 8

OffRight == 16

OffParent == 24

OffBlockPointer == 32

OffBlockOffset == 40

OffAllocationSize == 48

\* Width of one field (every field of the descriptor is one 64-bit word).
WordSize == 8

(***************************************************************************)
(* Bounds of the model.                                                    *)
(***************************************************************************)
\* Explicit calls of sf_init.
MaxInits == 1

\* Calls of sf_alloc.
MaxAllocs == 3

\* Calls of sf_init, sf_alloc and sf_free together.
MaxCalls == 5

\* Iterations of the pool search loop that are followed within one call.
MaxSpins == 2

\* Reserve sizes passed to sf_init.
InitSizes == {SFA_DEFAULT_INITIAL_POOL_SIZE, 300000}

\* Sizes passed to sf_alloc: zero, one that is not a multiple of the
\* alignment, two ordinary ones, the exact size of a default pool's free
\* block, and one larger than a default pool.
Requests == {0, 33, 64, 128, 261984, 300000}

(***************************************************************************)
(* 64-bit unsigned comparison on two's complement representatives.         *)
(***************************************************************************)
U64GE(a, b) == IF (a < 0) = (b < 0) THEN a >= b ELSE a < 0

U64GT(a, b) == IF (a < 0) = (b < 0) THEN a > b ELSE a < 0

(***************************************************************************)
(* Sizing utilities.                                                       *)
(***************************************************************************)
__sfa_virtual_size == PageGranularity

__sfa_request_size_to_nearest_boundary(size) ==
    LET remainder == size % SFA_ALLOCATION_ALIGNMENT_SIZE
        boundary  == size + remainder
    IN  boundary

__sfa_request_size_to_minimum_pool_size(size) ==
    LET pool_size == __sfa_virtual_size
        pages     == (size \div pool_size)
                        + (IF size % pool_size > 0 THEN 1 ELSE 0)
        pages_required ==
            IF pages > SFA_ALLOCATION_MINIMUM_PAGES_PER_POOL
            THEN pages ELSE SFA_ALLOCATION_MINIMUM_PAGES_PER_POOL
    IN  pages_required * pool_size

__sfa_request_size_to_minimum_alloc_size(size) ==
    IF U64GT(size, SFA_ALLOCATION_MINIMUM_SIZE)
    THEN size ELSE SFA_ALLOCATION_MINIMUM_SIZE

(***************************************************************************)
(* Pool memory.  mem maps the address of every word the allocator has      *)
(* stored to the value stored; VirtualAlloc hands out zeroed pages, so a   *)
(* word never stored reads 0.  A store that covers only part of an earlier *)
(* word leaves that word with an unknown value, Torn.                      *)
(***************************************************************************)
Torn == -2000000000

Overlaps(a, b) == a > b - WordSize /\ a < b + WordSize

MemRead(m, a) ==
    IF a \in DOMAIN m THEN m[a]
    ELSE IF \E x \in DOMAIN m : Overlaps(x, a) THEN Torn
    ELSE 0

MemWrite(m, a, v) ==
    [x \in (DOMAIN m) \cup {a} |->
        IF x = a THEN v
        ELSE IF Overlaps(x, a) THEN Torn
        ELSE m[x]]

\* The flags word of a descriptor: bit 0 is_occupied, bit 1 is_coallescable.
FlagsWord(is_occupied, is_coallescable) ==
    (IF is_occupied THEN 1 ELSE 0) + (IF is_coallescable THEN 2 ELSE 0)

IsOccupied(m, d) == MemRead(m, d + OffFlags) % 2 = 1

(***************************************************************************)
(* State.                                                                  *)
(*   head_pool, tail_pool  the fields of sfa_state (addresses, NULL = 0)   *)
(*   pools     the pool descriptors, by the address of the pool            *)
(*   mem       the words of block descriptors stored in pool memory        *)
(*   vm        the reservations made by __sfa_virtual_alloc, oldest first  *)
(*   pc        "idle" between calls, "search" inside sf_alloc's pool       *)
(*             search loop, "aborted" after a failed assertion, "crashed"  *)
(*             after a store to memory that is not reserved faulted        *)
(*   call      the locals of the sf_alloc call in progress                 *)
(*   hist      the calls made so far and what each returned                *)
(*   intact    the allocations (entries of hist) into whose bytes the      *)
(*             allocator has stored nothing since it returned them         *)
(***************************************************************************)
VARIABLES head_pool, tail_pool, pools, mem, vm, pc, call, hist, intact

vars == <<head_pool, tail_pool, pools, mem, vm, pc, call, hist, intact>>

NoCall == [size |-> 0, block |-> 0, current_pool |-> NULL, spins |-> 0,
           lazy |-> FALSE, pools_before |-> 0]

EmptyMem == [x \in {} |-> 0]

Init ==
    /\ head_pool = NULL
    /\ tail_pool = NULL
    /\ pools = [x \in {} |-> 0]
    /\ mem = EmptyMem
    /\ vm = << >>
    /\ pc = "idle"
    /\ call = NoCall
    /\ hist = << >>
    /\ intact = {}

\* One entry of hist.  op is "init", "alloc" or "free"; arg the argument;
\* ret the pointer returned; size the bytes reserved for it; pool the pool
\* created or carved; occ that pool's occupancy after the call; lazy whether
\* the call found no pool; grown the pools the call created.
Event(op, arg, ret, size, pool, occ, lazy, grown) ==
    [op |-> op, arg |-> arg, ret |-> ret, size |-> size, pool |-> pool,
     occ |-> occ, lazy |-> lazy, grown |-> grown]

(***************************************************************************)
(* Virtual memory backend: VirtualAlloc(NULL, size, ...) returns a region  *)
(* aligned to the allocation granularity that overlaps no earlier one.     *)
(* Here each region follows the previous one.                              *)
(***************************************************************************)
__sfa_virtual_alloc(v, size) ==
    IF v = << >> THEN PageGranularity
    ELSE v[Len(v)].base + v[Len(v)].size

(***************************************************************************)
(* The pages VirtualAlloc commits are zeroed: no word stored earlier at an  *)
(* address of the new region [base, base + size) is left in it.            *)
(***************************************************************************)
ZeroPages(m, base, size) ==
    [x \in {w \in DOMAIN m : w + WordSize <= base \/ w >= base + size}
        |-> m[x]]

\* Address w is the start of a word that lies in a region of v.
Reserved(v, w) ==
    \E k \in DOMAIN v :
        w >= v[k].base /\ w + WordSize <= v[k].base + v[k].size

(***************************************************************************)
(* __sfa_create_pool: the pool descriptor at the start of the region and   *)
(* the descriptor of its single free block.                                *)
(***************************************************************************)
PoolOffsetSize == __sfa_request_size_to_nearest_boundary(SizeofPoolDescriptor)

BlockOffset == __sfa_request_size_to_nearest_boundary(SizeofAllocationDescriptor)

\* SFA_ASSERT((uint64_t)memory_offset % SFA_ALLOCATION_ALIGNMENT_SIZE)
CreatePoolAssertion(alloc_buffer) ==
    (alloc_buffer + PoolOffsetSize) % SFA_ALLOCATION_ALIGNMENT_SIZE # 0

CreatePoolDescriptor(alloc_buffer, actual_reserve_size) ==
    LET offset_size   == PoolOffsetSize
        memory_offset == alloc_buffer + offset_size
    IN  [next_pool               |-> NULL,
         prev_pool               |-> NULL,
         free_list               |-> memory_offset,
         memory_region           |-> memory_offset,
         memory_region_size      |-> actual_reserve_size - offset_size,
         memory_region_occupancy |-> SizeofAllocationDescriptor,
         pool_is_large           |-> FALSE]

\* The initial free list with the whole region as its size, its own
\* header not taken off.
CreatePoolFreeList_NoHeader(m, alloc_buffer, actual_reserve_size) ==
    LET offset_size   == PoolOffsetSize
        memory_offset == alloc_buffer + offset_size
        region_size   == actual_reserve_size - offset_size
        block_offset  == BlockOffset
        m1 == MemWrite(m,  memory_offset + OffFlags, FlagsWord(FALSE, TRUE))
        m2 == MemWrite(m1, memory_offset + OffLeft, NULL)
        m3 == MemWrite(m2, memory_offset + OffRight, NULL)
        m4 == MemWrite(m3, memory_offset + OffParent, alloc_buffer)
        m5 == MemWrite(m4, memory_offset + OffAllocationSize, region_size)
        m6 == MemWrite(m5, memory_offset + OffBlockPointer,
                       memory_offset + block_offset)
        m7 == MemWrite(m6, memory_offset + OffBlockOffset, block_offset)
    IN  m7

CreatePoolFreeList(m, alloc_buffer, actual_reserve_size) ==
    LET offset_size   == PoolOffsetSize
        memory_offset == alloc_buffer + offset_size
        region_size   == actual_reserve_size - offset_size
        block_offset  == BlockOffset
        m1 == MemWrite(m,  memory_offset + OffFlags, FlagsWord(FALSE, TRUE))
        m2 == MemWrite(m1, memory_offset + OffLeft, NULL)
        m3 == MemWrite(m2, memory_offset + OffRight, NULL)
        m4 == MemWrite(m3, memory_offset + OffParent, alloc_buffer)
        m5 == MemWrite(m4, memory_offset + OffAllocationSize,
                       region_size - offset_size)
        m6 == MemWrite(m5, memory_offset + OffBlockPointer,
                       memory_offset + block_offset)
        m7 == MemWrite(m6, memory_offset + OffBlockOffset, block_offset)
    IN  m7

\* The reservation size __sfa_create_pool asks of the backend.
ActualReserveSize(pool_size) ==
    __sfa_request_size_to_minimum_pool_size(pool_size)

\* __sfa_create_pool(pool_size) applied to the backend v, the pools ps and
\* the memory m: the new pool, and v, ps and m with it.
__sfa_create_pool(pool_size, v, ps, m) ==
    LET actual == ActualReserveSize(pool_size)
        pool   == __sfa_virtual_alloc(v, actual)
    IN  [pool     |-> pool,
         asserted |-> CreatePoolAssertion(pool),
         vm       |-> Append(v, [base |-> pool, size |-> actual]),
         pools    |-> [x \in (DOMAIN ps) \cup {pool} |->
                          IF x = pool
                          THEN CreatePoolDescriptor(pool, actual)
                          ELSE ps[x]],
         mem      |-> CreatePoolFreeList(ZeroPages(m, pool, actual),
                                         pool, actual)]

(***************************************************************************)
(* sf_init(reserve_size): create a pool and make it head and tail.         *)
(***************************************************************************)
\* sf_init without the store to state->tail_pool.
InitEffect_NoTail(reserve_size) ==
    LET c == __sfa_create_pool(reserve_size, vm, pools, mem)
    IN  /\ vm' = c.vm
        /\ pools' = c.pools
        /\ mem' = c.mem
        /\ head_pool' = c.pool
        /\ tail_pool' = tail_pool

\* sf_init without the store to state->head_pool.
InitEffect_NoHead(reserve_size) ==
    LET c == __sfa_create_pool(reserve_size, vm, pools, mem)
    IN  /\ vm' = c.vm
        /\ pools' = c.pools
        /\ mem' = c.mem
        /\ head_pool' = head_pool
        /\ tail_pool' = c.pool

InitEffect(reserve_size) ==
    LET c == __sfa_create_pool(reserve_size, vm, pools, mem)
    IN  /\ vm' = c.vm
        /\ pools' = c.pools
        /\ mem' = c.mem
        /\ head_pool' = c.pool
        /\ tail_pool' = c.pool

InitAsserted(reserve_size) ==
    __sfa_create_pool(reserve_size, vm, pools, mem).asserted

sf_init(reserve_size) ==
    /\ pc = "idle"
    /\ Len(hist) < MaxCalls
    /\ Cardinality({i \in DOMAIN hist : hist[i].op = "init"}) < MaxInits
    /\ InitEffect(reserve_size)
    /\ pc' = IF InitAsserted(reserve_size) THEN "idle" ELSE "aborted"
    /\ LET pool == __sfa_create_pool(reserve_size, vm, pools, mem).pool
       IN  hist' = Append(hist,
                     Event("init", reserve_size, NULL, 0, pool,
                           pools'[pool].memory_region_occupancy,
                           head_pool = NULL, Len(vm') - Len(vm)))
    /\ UNCHANGED <<call, intact>>

(***************************************************************************)
(* __sfa_accomodate_allocation(block, {pool, &pool->free_list}) on the     *)
(* pools ps and the memory m.  The store through the list node on line 355 *)
(* is taken as a store to the right_descriptor field of the list's head.   *)
(***************************************************************************)
AccomodateAssertion(ps, m, pool, block) ==
    U64GE(MemRead(m, ps[pool].free_list + OffAllocationSize), block)

__sfa_accomodate_allocation(ps, m, pool, block) ==
    LET node               == ps[pool].free_list
        memory_block_begin == MemRead(m, node + OffBlockPointer)
        new_free_region    == memory_block_begin + block
        new_descriptor     == new_free_region
        m1 == MemWrite(m,  new_descriptor + OffFlags, FlagsWord(FALSE, TRUE))
        m2 == MemWrite(m1, new_descriptor + OffLeft, node)
        m3 == MemWrite(m2, new_descriptor + OffRight,
                       MemRead(m2, node + OffRight))
        m4 == MemWrite(m3, new_descriptor + OffAllocationSize,
                       MemRead(m3, node + OffAllocationSize)
                         - MemRead(m3, node + OffBlockOffset) - block)
        m5 == MemWrite(m4, node + OffRight, new_descriptor)
    IN  [mem   |-> m5,
         pools |-> [ps EXCEPT ![pool].memory_region_occupancy =
                       @ + block + MemRead(m5, node + OffBlockOffset)],
         stores |-> {new_descriptor + OffFlags, new_descriptor + OffLeft,
                     new_descriptor + OffRight,
                     new_descriptor + OffAllocationSize, node + OffRight},
         user_ptr |-> new_free_region]

(***************************************************************************)
(* sf_alloc(size), up to the head of the pool search loop: the lazy        *)
(* sf_init, the sizing of the request, and the loop's initialisation.      *)
(***************************************************************************)
RequiredBlock(size) ==
    __sfa_request_size_to_nearest_boundary(
        __sfa_request_size_to_minimum_alloc_size(size))

sf_alloc(size) ==
    /\ pc = "idle"
    /\ Len(hist) < MaxCalls
    /\ Cardinality({i \in DOMAIN hist : hist[i].op = "alloc"}) < MaxAllocs
    /\ IF head_pool = NULL
       THEN /\ InitEffect(SFA_DEFAULT_INITIAL_POOL_SIZE)
            /\ pc' = IF InitAsserted(SFA_DEFAULT_INITIAL_POOL_SIZE)
                     THEN "search" ELSE "aborted"
       ELSE /\ UNCHANGED <<head_pool, tail_pool, pools, mem, vm>>
            /\ pc' = "search"
    /\ call' = [size |-> size, block |-> RequiredBlock(size),
                current_pool |-> head_pool', spins |-> 0,
                lazy |-> (head_pool = NULL), pools_before |-> Len(vm)]
    /\ UNCHANGED <<hist, intact>>

(***************************************************************************)
(* __sfa_find_pool_for_alloc_fast: what the search yields at the head of   *)
(* one iteration of `while (current_pool != NULL)`.                        *)
(***************************************************************************)
\* The test of the loop body: the pool's free-list head can fit the block.
PoolFits(ps, m, pool, block) ==
    U64GE(MemRead(m, ps[pool].free_list + OffAllocationSize), block)

\* The pool the loop body moves to when current_pool does not fit: the body
\* has no statement after the test, so current_pool keeps its value.
NextCurrentPool(ps, current_pool) == current_pool

\* Lines 314-325: no pool was found; create one and make it the tail.
GrowPool(block) ==
    LET c == __sfa_create_pool(block + SizeofPoolDescriptor, vm, pools, mem)
    IN  [pool     |-> c.pool,
         asserted |-> c.asserted /\ PoolFits(c.pools, c.mem, c.pool, block),
         vm       |-> c.vm,
         pools    |-> [c.pools EXCEPT ![c.pool].prev_pool = tail_pool,
                                      ![c.pool].next_pool = NULL],
         mem      |-> c.mem,
         tail     |-> c.pool]

\* The search result when the loop is left, by `return` or by its condition.
SearchResult ==
    IF call.current_pool = NULL
    THEN GrowPool(call.block)
    ELSE [pool |-> call.current_pool, asserted |-> TRUE, vm |-> vm,
          pools |-> pools, mem |-> mem, tail |-> tail_pool]

\* The rest of sf_alloc once the search has returned: carve and return.
Serve(s) ==
    LET a == __sfa_accomodate_allocation(s.pools, s.mem, s.pool, call.block)
        ok == s.asserted /\ AccomodateAssertion(s.pools, s.mem, s.pool, call.block)
    IN  /\ vm' = s.vm
        /\ tail_pool' = s.tail
        /\ pools' = a.pools
        /\ mem' = a.mem
        /\ pc' = IF ok THEN "idle" ELSE "aborted"
        /\ hist' = Append(hist,
                     Event("alloc", call.size, a.user_ptr, call.block, s.pool,
                           a.pools[s.pool].memory_region_occupancy,
                           call.lazy, Len(s.vm) - call.pools_before))
        /\ intact' = {i \in intact :
                         ~ \E w \in a.stores :
                               /\ w + WordSize > hist[i].ret
                               /\ w < hist[i].ret + hist[i].size}
                      \cup {Len(hist) + 1}
        /\ call' = NoCall
        /\ UNCHANGED head_pool

\* A store of the carve goes to an address outside every reservation.  The
\* behaviour is undefined: the store faults and ends the process, or lands
\* in whatever is mapped there and the call goes on (Serve).
Faults(s) ==
    LET a == __sfa_accomodate_allocation(s.pools, s.mem, s.pool, call.block)
    IN  /\ \E w \in a.stores : ~ Reserved(s.vm, w)
        /\ pc' = "crashed"
        /\ vm' = s.vm
        /\ tail_pool' = s.tail
        /\ pools' = s.pools
        /\ mem' = s.mem
        /\ UNCHANGED <<head_pool, call, hist, intact>>

find_pool_for_alloc ==
    /\ pc = "search"
    /\ IF call.current_pool = NULL
          \/ PoolFits(pools, mem, call.current_pool, call.block)
       THEN Serve(SearchResult) \/ Faults(SearchResult)
       ELSE /\ call.spins < MaxSpins
            /\ call' = [call EXCEPT
                          !.current_pool = NextCurrentPool(pools, @),
                          !.spins = @ + 1]
            /\ UNCHANGED <<head_pool, tail_pool, pools, mem, vm, pc, hist,
                           intact>>

(***************************************************************************)
(* sf_free(ptr), for a pointer sf_alloc returned that has not been freed   *)
(* since.  The body of sf_free is empty.                                   *)
(***************************************************************************)
\* The entries of hist that are live allocations.
Live ==
    {i \in DOMAIN hist :
        /\ hist[i].op = "alloc"
        /\ ~ \E j \in DOMAIN hist :
                j > i /\ hist[j].op = "free" /\ hist[j].arg = hist[i].ret}

LivePointers == {hist[i].ret : i \in Live}

FreeEffect(ptr) ==
    UNCHANGED <<head_pool, tail_pool, pools, mem, vm>>

sf_free(ptr) ==
    /\ pc = "idle"
    /\ Len(hist) < MaxCalls
    /\ ptr \in LivePointers
    /\ FreeEffect(ptr)
    /\ hist' = Append(hist, Event("free", ptr, NULL, 0, NULL, 0, FALSE, 0))
    /\ intact' = {i \in intact : hist[i].ret # ptr}
    /\ UNCHANGED <<pc, call>>

Next ==
    \/ \E r \in InitSizes : sf_init(r)
    \/ \E s \in Requests : sf_alloc(s)
    \/ find_pool_for_alloc
    \/ \E p \in LivePointers : sf_free(p)

Spec == Init /\ [][Next]_vars

\* The scheduling of a single-threaded caller: a call in progress keeps
\* executing.
FairSpec == Spec /\ WF_vars(find_pool_for_alloc)

(***************************************************************************)
(* The data structures as the code links them.                             *)
(***************************************************************************)
\* The pools reached from pool p by next_pool links, p included.
RECURSIVE PoolsFrom(_, _)
PoolsFrom(p, seen) ==
    IF p = NULL \/ p \in seen \/ p \notin DOMAIN pools THEN seen
    ELSE PoolsFrom(pools[p].next_pool, seen \cup {p})

PoolListLength == Cardinality(PoolsFrom(head_pool, {}))

\* The block descriptors reached from descriptor d by right_descriptor links.
RECURSIVE BlocksFrom(_, _)
BlocksFrom(d, seen) ==
    IF d = NULL \/ d = Torn \/ d \in seen THEN seen
    ELSE BlocksFrom(MemRead(mem, d + OffRight), seen \cup {d})

\* The blocks of a pool: the chain that starts at the head of its region.
BlocksOf(pool) == BlocksFrom(pools[pool].memory_region, {})

Blocks == UNION {BlocksOf(p) : p \in DOMAIN pools}

\* The descriptor of the block whose usable memory starts at ptr: a block's
\* memory starts block_offset bytes after its descriptor.
HeaderOf(ptr) == ptr - BlockOffset

AllocEvents == {i \in DOMAIN hist : hist[i].op = "alloc"}

Disjoint(p, sp, q, sq) == p + sp <= q \/ q + sq <= p

(***************************************************************************)
(* C1  Non-overlap: the address ranges [ptr, ptr+size) of any two live     *)
(* allocations are disjoint.                                               *)
(***************************************************************************)
C1_NonOverlap ==
    \A i, j \in Live :
        i # j => Disjoint(hist[i].ret, hist[i].size, hist[j].ret, hist[j].size)

(***************************************************************************)
(* C2  Alignment: every pointer sf_alloc returns is a multiple of          *)
(* SFA_ALLOCATION_ALIGNMENT_SIZE.                                          *)
(***************************************************************************)
C2_Alignment ==
    \A i \in AllocEvents : hist[i].ret % SFA_ALLOCATION_ALIGNMENT_SIZE = 0

(***************************************************************************)
(* C3  Idempotent init: a call of sf_init made while a pool exists creates *)
(* no pool and leaves head_pool, tail_pool and every pool unchanged.       *)
(***************************************************************************)
C3_IdempotentInit ==
    [][((\E r \in InitSizes : sf_init(r)) /\ head_pool # NULL)
          => UNCHANGED <<head_pool, tail_pool, pools, vm>>]_vars

(***************************************************************************)
(* C4  Termination: the pool search of sf_alloc ends; it makes at most one *)
(* iteration for each pool of the list, so it is bounded by the length of  *)
(* the pool list.                                                          *)
(***************************************************************************)
C4_Termination == call.spins <= PoolListLength

(***************************************************************************)
(* C5  Pool growth: once the search has tested every pool of the list and  *)
(* none fits, it stands at the creation of a new pool; and a call served   *)
(* by a pool it created has created exactly one, whose free block held the *)
(* request and which is the tail.                                          *)
(***************************************************************************)
C5_PoolGrowth ==
    /\ (pc = "search" /\ call.spins >= PoolListLength)
          => call.current_pool = NULL
    /\ \A i \in AllocEvents :
          (~ hist[i].lazy /\ hist[i].grown > 0) =>
              /\ hist[i].grown = 1
              /\ (i = Len(hist) =>
                    tail_pool = hist[i].pool /\ pc # "aborted")

(***************************************************************************)
(* C6  Release: after sf_free(p) the block whose memory starts at p is a   *)
(* block of a pool and is marked free.                                     *)
(***************************************************************************)
C6_Release ==
    (hist # << >> /\ hist[Len(hist)].op = "free") =>
        LET d == HeaderOf(hist[Len(hist)].arg)
        IN  d \in Blocks /\ ~ IsOccupied(mem, d)

\* The calls sf_init(256 KB), P1 = sf_alloc(64), P2 = sf_alloc(128),
\* sf_free(P1), sf_alloc(64) have been made, in this order, and no other.
Scenario7 ==
    /\ Len(hist) = 5
    /\ hist[1].op = "init" /\ hist[1].arg = SFA_DEFAULT_INITIAL_POOL_SIZE
    /\ hist[2].op = "alloc" /\ hist[2].arg = 64
    /\ hist[3].op = "alloc" /\ hist[3].arg = 128
    /\ hist[4].op = "free" /\ hist[4].arg = hist[2].ret
    /\ hist[5].op = "alloc" /\ hist[5].arg = 64

(***************************************************************************)
(* C7  Reuse after free: after sf_init(256 KB), P1 = sf_alloc(64),         *)
(* P2 = sf_alloc(128), sf_free(P1), the next sf_alloc(64) returns a        *)
(* pointer inside P1's block and leaves the pool's occupancy no larger     *)
(* than it was before sf_free(P1).                                         *)
(***************************************************************************)
C7_ReuseAfterFree ==
    Scenario7 =>
        /\ hist[5].ret >= hist[2].ret
        /\ hist[5].ret < hist[2].ret + hist[2].size
        /\ pools[hist[5].pool].memory_region_occupancy <= hist[3].occ

\* Entries i, j of hist are allocations of one pool, j's memory following
\* i's directly or after one header.
Adjacent(i, j) ==
    /\ hist[i].pool = hist[j].pool
    /\ \/ hist[j].ret = hist[i].ret + hist[i].size
       \/ hist[j].ret = hist[i].ret + hist[i].size + BlockOffset

\* Both were live together and both have been freed, nothing allocated since.
BothFreed(i, j) ==
    \E k, l \in DOMAIN hist :
        /\ k > i /\ k > j /\ l > i /\ l > j /\ k # l
        /\ hist[k].op = "free" /\ hist[k].arg = hist[i].ret
        /\ hist[l].op = "free" /\ hist[l].arg = hist[j].ret
        /\ \A n \in AllocEvents : n < k /\ n < l

MergedSize(i, j) == hist[i].size + hist[j].size + BlockOffset

(***************************************************************************)
(* C8  Coalescing: when two physically adjacent allocations of one pool    *)
(* have both been freed, in either order, the pool has one free block      *)
(* whose size is the sum of the two sizes plus one header and whose memory *)
(* starts where the lower allocation's did.                                *)
(***************************************************************************)
C8_Coalescing ==
    \A i, j \in AllocEvents :
        (Adjacent(i, j) /\ BothFreed(i, j)) =>
            \E d \in BlocksOf(hist[i].pool) :
                /\ ~ IsOccupied(mem, d)
                /\ MemRead(mem, d + OffAllocationSize) = MergedSize(i, j)
                /\ MemRead(mem, d + OffBlockPointer) = hist[i].ret

(***************************************************************************)
(* C9  No header/payload aliasing: no word of a block descriptor lies in   *)
(* the bytes [p, p+s) of a live allocation, and sf_alloc stores nothing    *)
(* into them after it has returned p.                                      *)
(***************************************************************************)
C9_NoAliasing ==
    /\ \A i \in Live : \A w \in DOMAIN mem :
          w + WordSize <= hist[i].ret \/ w >= hist[i].ret + hist[i].size
    /\ Live \subseteq intact

\* 256 KB is four allocation units, the minimum for a pool.
DefaultPoolBytes ==
    SFA_ALLOCATION_MINIMUM_PAGES_PER_POOL * PageGranularity

OneDefaultPool ==
    /\ Len(vm) = 1
    /\ vm[1].size = DefaultPoolBytes
    /\ DOMAIN pools = {vm[1].base}
    /\ head_pool = vm[1].base
    /\ tail_pool = vm[1].base

RoundUp(n) ==
    ((n + SFA_ALLOCATION_ALIGNMENT_SIZE - 1) \div SFA_ALLOCATION_ALIGNMENT_SIZE)
        * SFA_ALLOCATION_ALIGNMENT_SIZE

AtLeastMinimum(n) ==
    IF n > SFA_ALLOCATION_MINIMUM_SIZE THEN n ELSE SFA_ALLOCATION_MINIMUM_SIZE

C11_RoundToAlignment ==
    /\ \A i \in AllocEvents :
          hist[i].size = RoundUp(AtLeastMinimum(hist[i].arg))
    /\ pc = "search" => call.block = RoundUp(AtLeastMinimum(call.size))

(***************************************************************************)
(* C12  Adjacency invariant: in each pool the blocks form one chain in     *)
(* address order: the first block has left == null, every right link leads *)
(* to a block at a higher address whose left link leads back, and the walk *)
(* by right links ends at a block with right == null.                      *)
(***************************************************************************)
LeftOf(d) == MemRead(mem, d + OffLeft)

RightOf(d) == MemRead(mem, d + OffRight)

C12_Adjacency ==
    \A p \in DOMAIN pools :
        /\ LeftOf(pools[p].memory_region) = NULL
        /\ \A d \in BlocksOf(p) :
              RightOf(d) # NULL =>
                  /\ RightOf(d) > d
                  /\ LeftOf(RightOf(d)) = d
        /\ \E d \in BlocksOf(p) : RightOf(d) = NULL

(***************************************************************************)
(* The step of sf_alloc that carves: the search has chosen a pool and the  *)
(* call returns.  F is the chosen pool's free block before the step, b the *)
(* rounded request, and the remainder what F keeps after b and one header. *)
(***************************************************************************)
Carves == find_pool_for_alloc /\ pc' = "idle"

ChosenPool == SearchResult.pool

ChosenBlock == SearchResult.pools[ChosenPool].free_list

ChosenSize == MemRead(SearchResult.mem, ChosenBlock + OffAllocationSize)

Remainder == ChosenSize - call.block - BlockOffset

(***************************************************************************)
(* C13  Carving: when the remainder is at least the minimum block size,    *)
(* sf_alloc leaves F occupied with size exactly b, returns the address     *)
(* that follows F's header, and makes the pool's free block a new free     *)
(* block after F's memory, of F's old size minus b minus one header.       *)
(***************************************************************************)
C13_Carving ==
    [][(Carves /\ Remainder >= SFA_ALLOCATION_MINIMUM_SIZE) =>
          LET F      == ChosenBlock
              b      == call.block
              ret    == hist'[Len(hist')].ret
              suffix == pools'[ChosenPool].free_list
          IN  /\ IsOccupied(mem', F)
              /\ MemRead(mem', F + OffAllocationSize) = b
              /\ ret = F + BlockOffset
              /\ suffix = ret + b
              /\ ~ IsOccupied(mem', suffix)
              /\ MemRead(mem', suffix + OffAllocationSize) = Remainder]_vars

(***************************************************************************)
(* C14  Carve threshold: when the remainder is smaller than the minimum    *)
(* block size (the request may equal F's size exactly), sf_alloc stores no *)
(* new descriptor and marks the whole of F occupied.                       *)
(***************************************************************************)
\* The words of descriptor d.
WordsOf(d) == {d + OffFlags, d + OffLeft, d + OffRight, d + OffParent,
               d + OffBlockPointer, d + OffBlockOffset, d + OffAllocationSize}

C14_CarveThreshold ==
    [][(Carves /\ Remainder < SFA_ALLOCATION_MINIMUM_SIZE) =>
          /\ IsOccupied(mem', ChosenBlock)
          /\ DOMAIN mem' \subseteq
                DOMAIN SearchResult.mem \cup WordsOf(ChosenBlock)]_vars

(***************************************************************************)
(* C15  Pool list consistency: the pools created so far form one doubly    *)
(* linked list in creation order: the walk by next_pool from head_pool     *)
(* visits every pool, the oldest first and tail_pool last, and a pool's    *)
(* prev_pool has that pool as its next_pool.                               *)
(***************************************************************************)
C15_PoolList ==
    /\ PoolsFrom(head_pool, {}) = DOMAIN pools
    /\ vm # << >> =>
          /\ head_pool = vm[1].base
          /\ tail_pool = vm[Len(vm)].base
          /\ \A k \in 1 .. Len(vm) - 1 :
                pools[vm[k].base].next_pool = vm[k + 1].base
          /\ pools[tail_pool].next_pool = NULL
    /\ \A p \in DOMAIN pools :
          pools[p].prev_pool # NULL =>
              /\ pools[p].prev_pool \in DOMAIN pools
              /\ pools[pools[p].prev_pool].next_pool = p

(***************************************************************************)
(* C16  State invariant: head_pool is null if and only if tail_pool is     *)
(* null.                                                                   *)
(***************************************************************************)
C16_HeadTailNull == (head_pool = NULL) <=> (tail_pool = NULL)

\* C16: a pool has been created, by sf_init or by the first sf_alloc, and
\* both references are set.
C16_Witness ==
    /\ vm # << >>
    /\ head_pool # NULL
    /\ tail_pool # NULL
    /\ hist # << >>

(***************************************************************************)
(* C17  Pool region alignment: every pool's memory_region is its base plus *)
(* the pool header's size rounded up to the alignment, a multiple of 32,   *)
(* and the assertion create_pool makes on that address has not failed.     *)
(***************************************************************************)
C17_RegionAligned ==
    /\ pc # "aborted"
    /\ \A p \in DOMAIN pools :
          /\ p % PageGranularity = 0
          /\ pools[p].memory_region = p + RoundUp(SizeofPoolDescriptor)
          /\ pools[p].memory_region % SFA_ALLOCATION_ALIGNMENT_SIZE = 0

(***************************************************************************)
(* C18  Pool creation: a pool from which nothing has been carved yet has   *)
(* exactly one block: it is free, has left == null and right == null, is   *)
(* the pool's free list, and its memory starts one header (with its        *)
(* padding, block_offset) after the start of the usable region and ends    *)
(* where the region ends, so its size is the region size minus that        *)
(* header; the pool's occupancy is the size of one block descriptor.       *)
(***************************************************************************)
\* The pools no sf_alloc has carved.
FreshPools == {p \in DOMAIN pools : \A i \in AllocEvents : hist[i].pool # p}

\* The end of the reservation that starts at pool p.
RegionEnd(p) ==
    LET k == CHOOSE k \in DOMAIN vm : vm[k].base = p
    IN  vm[k].base + vm[k].size

C18_PoolCreation ==
    \A p \in FreshPools :
        LET d == pools[p].memory_region
        IN  /\ BlocksOf(p) = {d}
            /\ \A w \in DOMAIN mem :
                  (w >= p /\ w < RegionEnd(p)) => w \in WordsOf(d)
            /\ ~ IsOccupied(mem, d)
            /\ LeftOf(d) = NULL
            /\ RightOf(d) = NULL
            /\ pools[p].free_list = d
            /\ MemRead(mem, d + OffAllocationSize)
                  = pools[p].memory_region_size - BlockOffset
            /\ MemRead(mem, d + OffBlockPointer) = d + BlockOffset
            /\ MemRead(mem, d + OffBlockPointer)
                  + MemRead(mem, d + OffAllocationSize) = RegionEnd(p)
            /\ pools[p].memory_region + pools[p].memory_region_size
                  = RegionEnd(p)
            /\ pools[p].memory_region_occupancy = SizeofAllocationDescriptor

\* C18: a pool exists from which nothing has been carved.
C18_Witness ==
    /\ FreshPools # {}
    /\ pc = "idle"
    /\ hist # << >>
    /\ hist[Len(hist)].op = "init"

(***************************************************************************)
(* C19  Occupancy bound: every sf_alloc adds the carved size plus one      *)
(* header to the occupancy of the pool it carves, and every pool's         *)
(* memory_region_occupancy stays <= its memory_region_size.                *)
(***************************************************************************)
C19_OccupancyBound ==
    /\ \A i \in AllocEvents :
          LET before == {j \in AllocEvents :
                            j < i /\ hist[j].pool = hist[i].pool}
              prev   == IF before = {} THEN SizeofAllocationDescriptor
                        ELSE hist[CHOOSE j \in before :
                                     \A k \in before : k <= j].occ
          IN  hist[i].occ = prev + hist[i].size + BlockOffset
    /\ \A p \in DOMAIN pools :
          pools[p].memory_region_occupancy <= pools[p].memory_region_size

(***************************************************************************)
(* C20  Region bounds: every word of a block descriptor that sf_alloc      *)
(* stores, and the bytes [ptr, ptr+size) it returns, lie inside the        *)
(* reservation of the pool it carves, and the size it computes for the new *)
(* free block (old size - header - request) does not wrap below zero.      *)
(***************************************************************************)
C20_RegionBounds ==
    [][Carves =>
          LET a   == __sfa_accomodate_allocation(SearchResult.pools,
                         SearchResult.mem, ChosenPool, call.block)
              lo  == ChosenPool
              hi  == SearchResult.vm[CHOOSE k \in DOMAIN SearchResult.vm :
                         SearchResult.vm[k].base = ChosenPool].size + lo
          IN  /\ \A w \in a.stores : w >= lo /\ w + WordSize <= hi
              /\ a.user_ptr >= lo
              /\ a.user_ptr + call.block <= hi
              /\ Remainder >= 0]_vars

=============================================================================
